---- MODULE Spec2Model ----
(***************************************************************************)
(* A model of md_mermaid_checker/cli.py: the line scanner                  *)
(* find_mermaid_blocks, the helpers expand_inputs, which_mmdc, safe_name   *)
(* and run_mmdc, and the orchestration done by main.                       *)
(*                                                                         *)
(* Text is modelled as follows.  A line is a sequence of tokens; a token   *)
(* is a maximal piece of text the two regular expressions of the program   *)
(* can tell apart: a whitespace character, a word, and "bt3", which       *)
(* stands for a run of three backticks.  A path and a file name are        *)
(* sequences of characters.  A text of several lines is the sequence of    *)
(* the lines' tokens with the token "\n" between two lines.                *)
(*                                                                         *)
(* Two specifications are given.  ScanSpec runs find_mermaid_blocks line   *)
(* by line on one document.  Spec runs main from argument parsing to its   *)
(* return, the finally clause included.                                    *)
(***************************************************************************)
EXTENDS Integers, Sequences, FiniteSets, TLC

VARIABLES
    pc,          \* position of the running function
    args,        \* argparse namespace: inputs, config, keep, quiet; config is
                 \* "none" (not given), "exists" or "missing" (given, and a
                 \* path that exists or not)
    cmd_base,    \* which_mmdc()'s result, <<>> for None
    files,       \* main: the resolved, existing input paths
    md_pos,      \* main: position in files of the document md of the outer loop
    b_pos,       \* main: position in blocks of the block b of the inner loop
    tmpdir,      \* "none" | "exists" | "removed"
    children,    \* names of the scratch input files present in tmpdir
    in_file,     \* in_file of the block being validated: [name, text written]
    failed,      \* main's counter
    total,       \* main's counter
    found_any,   \* main's flag
    retval,      \* the value of main's return statement, -1 before it
    cleaned,     \* the finally clause entered its cleanup branch
    log,         \* documents read, renderer invocations and printed lines,
                 \* in program order
    lines,       \* the lines of the document being read
    blocks,      \* find_mermaid_blocks: the list being built / returned
    i,           \* find_mermaid_blocks: number of the line to read next
    in_block,    \* find_mermaid_blocks
    start_line,  \* find_mermaid_blocks
    buf,         \* find_mermaid_blocks
    block_idx    \* find_mermaid_blocks

vars == << pc, args, cmd_base, files, md_pos, b_pos, tmpdir, children, in_file,
           failed, total, found_any, retval, cleaned, log, lines, blocks,
           i, in_block, start_line, buf, block_idx >>

mainVars == << args, cmd_base, files, md_pos, b_pos, tmpdir, children, in_file,
               failed, total, found_any, retval, cleaned, log >>

scanVars == << i, in_block, start_line, buf, block_idx >>

(***************************************************************************)
(* Bounds of the model.                                                    *)
(***************************************************************************)
\* longest document ScanSpec scans, in lines
MaxLines == 4
\* longest list of positional arguments
MaxInputs == 2

SeqsUpTo(S, n) == UNION { [1..k -> S] : k \in 0..n }

Range(s) == { s[k] : k \in 1..Len(s) }

(***************************************************************************)
(* The two regular expressions.                                            *)
(***************************************************************************)
\* \s
IsSpace(t) == t \in {" ", "\t"}

\* \s*$ : only whitespace up to the end of the line
OnlySpace(s) == \A k \in 1..Len(s) : IsSpace(s[k])

\* what is left of a line after a leading \s*
RECURSIVE SkipSpace(_)
SkipSpace(s) ==
    IF s # <<>> /\ IsSpace(Head(s)) THEN SkipSpace(Tail(s)) ELSE s

\* FENCE_RE.match(line): ^\s*bt3(mermaid|mermaidjs)\s*$
FENCE_RE(line) ==
    LET r == SkipSpace(line)
    IN  /\ Len(r) >= 2
        /\ r[1] = "bt3"
        /\ r[2] \in {"mermaid", "mermaidjs"}
        /\ OnlySpace(SubSeq(r, 3, Len(r)))

\* END_FENCE_RE.match(line): ^\s*bt3\s*$
END_FENCE_RE(line) ==
    LET r == SkipSpace(line)
    IN  /\ Len(r) >= 1
        /\ r[1] = "bt3"
        /\ OnlySpace(Tail(r))

(***************************************************************************)
(* find_mermaid_blocks.                                                    *)
(***************************************************************************)
\* "\n".join(buf)
RECURSIVE Join(_)
Join(b) ==
    IF b = <<>> THEN <<>>
    ELSE IF Len(b) = 1 THEN b[1]
    ELSE b[1] \o <<"\n">> \o Join(Tail(b))

\* Block(path, start_line, block_idx, content)
Block(file, sl, idx, content) ==
    [file |-> file, start_line |-> sl, index_in_file |-> idx, content |-> content]

\* the locals of find_mermaid_blocks before the loop
ScanInit ==
    [in_block |-> FALSE, start_line |-> 0, buf |-> <<>>, block_idx |-> 0,
     blocks |-> <<>>]

\* ScanStep with the closing fence leaving the scanner inside the block
ScanStepStaysOpen(path, st, n, line) ==
    IF ~st.in_block /\ FENCE_RE(line)
    THEN [st EXCEPT !.in_block = TRUE, !.start_line = n, !.buf = <<>>]
    ELSE IF st.in_block /\ END_FENCE_RE(line)
    THEN [st EXCEPT !.block_idx = st.block_idx + 1,
                    !.blocks = Append(st.blocks,
                                      Block(path, st.start_line,
                                            st.block_idx + 1, Join(st.buf))),
                    !.buf = <<>>]
    ELSE IF st.in_block
    THEN [st EXCEPT !.buf = Append(st.buf, line)]
    ELSE st

\* ScanStep with the closing fence buffered before the block is emitted
ScanStepBuffersFence(path, st, n, line) ==
    IF ~st.in_block /\ FENCE_RE(line)
    THEN [st EXCEPT !.in_block = TRUE, !.start_line = n, !.buf = <<>>]
    ELSE IF st.in_block /\ END_FENCE_RE(line)
    THEN [st EXCEPT !.block_idx = st.block_idx + 1,
                    !.blocks = Append(st.blocks,
                                      Block(path, st.start_line,
                                            st.block_idx + 1,
                                            Join(Append(st.buf, line)))),
                    !.in_block = FALSE,
                    !.buf = <<>>]
    ELSE IF st.in_block
    THEN [st EXCEPT !.buf = Append(st.buf, line)]
    ELSE st

\* ScanStep with the index taken when the block opens
ScanStepIndexAtOpen(path, st, n, line) ==
    IF ~st.in_block /\ FENCE_RE(line)
    THEN [st EXCEPT !.in_block = TRUE, !.start_line = n, !.buf = <<>>,
                    !.block_idx = st.block_idx + 1]
    ELSE IF st.in_block /\ END_FENCE_RE(line)
    THEN [st EXCEPT !.blocks = Append(st.blocks,
                                      Block(path, st.start_line,
                                            st.block_idx, Join(st.buf))),
                    !.in_block = FALSE,
                    !.buf = <<>>]
    ELSE IF st.in_block
    THEN [st EXCEPT !.buf = Append(st.buf, line)]
    ELSE st

\* one iteration of the loop over enumerate(lines, start=1)
ScanStep(path, st, n, line) ==
    IF ~st.in_block /\ FENCE_RE(line)
    THEN [st EXCEPT !.in_block = TRUE, !.start_line = n, !.buf = <<>>]
    ELSE IF st.in_block /\ END_FENCE_RE(line)
    THEN [st EXCEPT !.block_idx = st.block_idx + 1,
                    !.blocks = Append(st.blocks,
                                      Block(path, st.start_line,
                                            st.block_idx + 1, Join(st.buf))),
                    !.in_block = FALSE,
                    !.buf = <<>>]
    ELSE IF st.in_block
    THEN [st EXCEPT !.buf = Append(st.buf, line)]
    ELSE st

RECURSIVE ScanFrom(_, _, _, _)
ScanFrom(path, st, n, ls) ==
    IF n > Len(ls) THEN st
    ELSE ScanFrom(path, ScanStep(path, st, n, ls[n]), n + 1, ls)

\* find_mermaid_blocks(path) for a regular file whose text splits into ls
find_mermaid_blocks(path, ls) == ScanFrom(path, ScanInit, 1, ls).blocks

\* in_file while no block is being validated
NoFile == [name |-> <<>>, text |-> <<>>]

(***************************************************************************)
(* The helpers of main.                                                    *)
(***************************************************************************)
\* the working directory Path.resolve() makes a relative path absolute in
Cwd == <<"/">>

\* Path.resolve(): an absolute path is kept, a relative one is put under
\* the working directory (symbolic links and ".." are not modelled)
resolve(p) == IF p # <<>> /\ Head(p) = "/" THEN p ELSE Cwd \o p

\* the de-duplication loop of expand_inputs, from position n of out
RECURSIVE DedupFrom(_, _, _, _)
DedupFrom(out, n, seen, deduped) ==
    IF n > Len(out) THEN deduped
    ELSE LET rp == resolve(out[n])
         IN  IF rp \notin seen
             THEN DedupFrom(out, n + 1, seen \cup {rp}, Append(deduped, rp))
             ELSE DedupFrom(out, n + 1, seen, deduped)

\* expand_inputs(patterns), for patterns without wildcard characters:
\* glob.glob(p) is [p] or [], and out receives Path(p) either way
expand_inputs(patterns) == DedupFrom(patterns, 1, {}, <<>>)

\* [p for p in ... if p.exists()]
RECURSIVE FilterExists(_, _)
FilterExists(ps, existing) ==
    IF ps = <<>> THEN <<>>
    ELSE IF Head(ps) \in existing
    THEN <<Head(ps)>> \o FilterExists(Tail(ps), existing)
    ELSE FilterExists(Tail(ps), existing)

\* which_mmdc(), given what shutil.which found for "mmdc" and for "npx"
which_mmdc(mmdc_bin, npx) ==
    IF mmdc_bin THEN <<"mmdc">>
    ELSE IF npx THEN <<"npx", "-y", "@mermaid-js/mermaid-cli", "mmdc">>
    ELSE <<>>

\* the characters [A-Za-z0-9_.-] of safe_name's pattern
SafeChars ==
    { "a", "b", "c", "d", "e", "f", "g", "h", "i", "j", "k", "l", "m",
      "n", "o", "p", "q", "r", "s", "t", "u", "v", "w", "x", "y", "z",
      "A", "B", "C", "D", "E", "F", "G", "H", "I", "J", "K", "L", "M",
      "N", "O", "P", "Q", "R", "S", "T", "U", "V", "W", "X", "Y", "Z",
      "0", "1", "2", "3", "4", "5", "6", "7", "8", "9", "_", ".", "-" }

\* safe_name(p): re.sub(r"[^A-Za-z0-9_.-]", "_", str(p))
safe_name(p) ==
    [k \in 1..Len(p) |-> IF p[k] \in SafeChars THEN p[k] ELSE "_"]

Digit(n) == <<"0", "1", "2", "3", "4", "5", "6", "7", "8", "9">>[n + 1]

\* str(n) for n >= 0
RECURSIVE Decimal(_)
Decimal(n) == IF n < 10 THEN <<Digit(n)>> ELSE Append(Decimal(n \div 10), Digit(n % 10))

\* the format specification 03d
RECURSIVE ZeroPad3(_)
ZeroPad3(d) == IF Len(d) >= 3 THEN d ELSE ZeroPad3(<<"0">> \o d)

\* stem = f"{safe_name(md)}.block_{b.index_in_file:03d}.mmd"
Stem(md, index_in_file) ==
    safe_name(md) \o <<".block_">> \o ZeroPad3(Decimal(index_in_file)) \o <<".mmd">>

\* run_mmdc, given what subprocess.run did: proc.kind is "exit" (the process
\* ran; returncode and the lines of its stripped error text in out) or
\* "notfound" (FileNotFoundError)
run_mmdc(proc) ==
    IF proc.kind = "notfound"
    THEN [ok |-> FALSE, msg |-> <<"Failed to execute mmdc">>]
    ELSE [ok |-> (proc.returncode = 0), msg |-> proc.out]

\* how a call of subprocess.run ended, as the log records it
RunText(proc) ==
    IF proc.kind = "exit"
    THEN <<"exit", IF proc.returncode = 0 THEN "zero" ELSE "nonzero">>
    ELSE <<proc.kind>>

\* the config check taking a missing path for a present one
ConfigNeverMissing(a) == FALSE

\* line 132: args.config and not args.config.exists()
ConfigMissing(a) == a.config = "missing"

\* the inner loop ended by a block that failed
MoreBlocksUnlessFailed(pos, bs, ok) == ok /\ pos < Len(bs)

\* line 152: for b in blocks goes on to the next block, whatever ok is
MoreBlocks(pos, bs, ok) == pos < Len(bs)

\* the cleanup done whatever --keep says
CleanupAlways(a) == TRUE

\* line 182: if not args.keep
CleanupWanted(a) == ~a.keep

(***************************************************************************)
(* Spec: main.                                                             *)
(***************************************************************************)
\* the positional arguments main is given
InputNames ==
    { <<"a", "_", "b">>,
      <<"/", "a", "/", "b">> }

\* the texts the documents main reads can hold: no block; one block; two
\* blocks; a block followed by an opening fence that is never closed
Corpus ==
    LET open == <<"bt3", "mermaid">>
        close == <<"bt3">>
        text == <<"x">>
    IN  { << text >>,
          << open, text, close >>,
          << open, text, close, text, open, close >>,
          << text, open, text, text, close, open, text >> }

\* the error texts of a renderer that exits nonzero, as lists of lines
MsgSet == { <<>>, <<"e1">>, <<"e1", "e2">> }

\* what subprocess.run can do; "oserror" is an exception run_mmdc does not catch
ProcSet ==
    { [kind |-> "exit", returncode |-> 0, out |-> <<>>] }
    \cup { [kind |-> "exit", returncode |-> 1, out |-> m] : m \in MsgSet }
    \cup { [kind |-> "notfound", returncode |-> 0, out |-> <<>>],
           [kind |-> "oserror", returncode |-> 0, out |-> <<>>] }

\* an entry of log: a document read (ev = "read", idx = the number of blocks
\* find_mermaid_blocks returned), a renderer invocation (ev = "run", text =
\* how it ended) or a printed line (ev = "OK", "ERR", "cont", "error",
\* "noblocks", "summary", "note")
Ev(ev, md, idx, start, name, text) ==
    [ev |-> ev, md |-> md, idx |-> idx, start |-> start, name |-> name, text |-> text]

Say(ev, text) == Ev(ev, <<>>, 0, 0, <<>>, text)

Init ==
    /\ pc = "which"
    /\ args \in [inputs : SeqsUpTo(InputNames, MaxInputs) \ {<<>>},
                 config : {"none", "exists", "missing"},
                 keep : BOOLEAN, quiet : BOOLEAN]
    /\ cmd_base = <<>>
    /\ files = <<>>
    /\ md_pos = 0
    /\ b_pos = 0
    /\ tmpdir = "none"
    /\ children = {}
    /\ in_file = NoFile
    /\ failed = 0
    /\ total = 0
    /\ found_any = 0
    /\ retval = -1
    /\ cleaned = FALSE
    /\ log = <<>>
    /\ lines = <<>>
    /\ blocks = <<>>
    /\ i = 0
    /\ in_block = FALSE
    /\ start_line = 0
    /\ buf = <<>>
    /\ block_idx = 0

\* lines 126-130
WhichMmdc ==
    /\ pc = "which"
    /\ \E mmdc_bin \in BOOLEAN, npx \in BOOLEAN :
         LET c == which_mmdc(mmdc_bin, npx)
         IN  /\ cmd_base' = c
             /\ IF c = <<>>
                THEN /\ log' = log \o << Say("error", <<"mmdc not found">>),
                                         Say("error", <<"install hint">>) >>
                     /\ retval' = 2
                     /\ pc' = "returned"
                ELSE /\ pc' = "config"
                     /\ UNCHANGED << log, retval >>
    /\ UNCHANGED << args, files, md_pos, b_pos, tmpdir, children, in_file,
                    failed, total, found_any, cleaned, lines, blocks >>
    /\ UNCHANGED scanVars

\* lines 132-134
CheckConfig ==
    /\ pc = "config"
    /\ IF ConfigMissing(args)
       THEN /\ log' = Append(log, Say("error", <<"config file not found">>))
            /\ retval' = 2
            /\ pc' = "returned"
       ELSE /\ pc' = "inputs"
            /\ UNCHANGED << log, retval >>
    /\ UNCHANGED << args, cmd_base, files, md_pos, b_pos, tmpdir, children,
                    in_file, failed, total, found_any, cleaned, lines, blocks >>
    /\ UNCHANGED scanVars

\* lines 136-139
ExpandInputs ==
    /\ pc = "inputs"
    /\ LET deduped == expand_inputs(args.inputs)
       IN  \E existing \in SUBSET Range(deduped) :
             LET fs == FilterExists(deduped, existing)
             IN  /\ files' = fs
                 /\ IF fs = <<>>
                    THEN /\ log' = Append(log, Say("error", <<"no input files found">>))
                         /\ retval' = 2
                         /\ pc' = "returned"
                    ELSE /\ pc' = "mkdtemp"
                         /\ UNCHANGED << log, retval >>
    /\ UNCHANGED << args, cmd_base, md_pos, b_pos, tmpdir, children, in_file,
                    failed, total, found_any, cleaned, lines, blocks >>
    /\ UNCHANGED scanVars

\* lines 141-144
Mkdtemp ==
    /\ pc = "mkdtemp"
    /\ tmpdir' = "exists"
    /\ children' = {}
    /\ failed' = 0
    /\ total' = 0
    /\ found_any' = 0
    /\ pc' = "doc"
    /\ UNCHANGED << args, cmd_base, files, md_pos, b_pos, in_file, retval,
                    cleaned, log, lines, blocks >>
    /\ UNCHANGED scanVars

\* lines 147-151: the next md of files; its text is whatever the file holds,
\* and a path that is no regular file has no blocks.  The variable lines
\* holds the text only while blocks of it are being validated.
NextDoc ==
    /\ pc = "doc"
    /\ md_pos < Len(files)
    /\ md_pos' = md_pos + 1
    /\ \E is_file \in BOOLEAN, ls \in Corpus \cup {<<>>} :
         /\ is_file \/ ls = <<>>
         /\ blocks' = IF is_file THEN find_mermaid_blocks(files[md_pos + 1], ls)
                                 ELSE <<>>
         /\ lines' = IF blocks' = <<>> THEN <<>> ELSE ls
    /\ log' = Append(log, Ev("read", files[md_pos + 1], Len(blocks'), 0, <<>>, <<>>))
    /\ IF blocks' = <<>>
       THEN UNCHANGED << pc, found_any, b_pos >>
       ELSE /\ found_any' = 1
            /\ b_pos' = 1
            /\ pc' = "write"
    /\ UNCHANGED << args, cmd_base, files, tmpdir, children, in_file, failed,
                    total, retval, cleaned >>
    /\ UNCHANGED scanVars

\* lines 152-158: the block b of blocks is counted and written to in_file
WriteBlock ==
    /\ pc = "write"
    /\ LET b == blocks[b_pos]
           stem == Stem(files[md_pos], b.index_in_file)
       IN  /\ total' = total + 1
           /\ in_file' = [name |-> stem, text |-> b.content]
           /\ children' = children \cup {stem}
    /\ pc' = "run"
    /\ UNCHANGED << args, cmd_base, files, md_pos, b_pos, tmpdir, failed,
                    found_any, retval, cleaned, log, lines, blocks >>
    /\ UNCHANGED scanVars

\* Report with --quiet silencing the failures as well
ReportQuietSilencesAll(md, b, name, r, quiet) ==
    IF quiet THEN <<>>
    ELSE IF r.ok
    THEN << Ev("OK", md, 0, b.start_line, name, <<>>) >>
    ELSE LET first_line == IF r.msg # <<>> THEN r.msg[1] ELSE "mmdc failed"
         IN  << Ev("ERR", md, 0, b.start_line, name, <<first_line>>) >>
             \o [k \in 1..(Len(r.msg) - 1) |-> Say("cont", <<r.msg[k + 1]>>)]

\* the lines that lines 161-172 print for block b after run_mmdc returned r
Report(md, b, name, r, quiet) ==
    IF r.ok
    THEN IF ~quiet THEN << Ev("OK", md, 0, b.start_line, name, <<>>) >> ELSE <<>>
    ELSE LET first_line == IF r.msg # <<>> THEN r.msg[1] ELSE "mmdc failed"
         IN  << Ev("ERR", md, 0, b.start_line, name, <<first_line>>) >>
             \o (IF ~quiet /\ r.msg # <<>>
                 THEN [k \in 1..(Len(r.msg) - 1) |-> Say("cont", <<r.msg[k + 1]>>)]
                 ELSE <<>>)

\* lines 160-172, and the step of the two loops: run_mmdc on in_file, the
\* report, the failure counter.  An exception of subprocess.run other than
\* FileNotFoundError leaves the loops for the finally clause.
RunBlock ==
    /\ pc = "run"
    /\ \E proc \in ProcSet :
         LET b == blocks[b_pos]
             md == files[md_pos]
             run == Ev("run", md, b.index_in_file, b.start_line, in_file.name,
                       RunText(proc))
         IN  IF proc.kind = "oserror"
             THEN /\ log' = Append(log, run)
                  /\ pc' = "finally_raise"
                  /\ in_file' = NoFile
                  /\ b_pos' = 0
                  /\ lines' = <<>>
                  /\ blocks' = <<>>
                  /\ UNCHANGED failed
             ELSE LET r == run_mmdc(proc)
                  IN  /\ log' = Append(log, run)
                                \o Report(md, b, in_file.name, r, args.quiet)
                      /\ failed' = IF r.ok THEN failed ELSE failed + 1
                      /\ in_file' = NoFile
                      /\ IF MoreBlocks(b_pos, blocks, r.ok)
                         THEN /\ b_pos' = b_pos + 1
                              /\ pc' = "write"
                              /\ UNCHANGED << lines, blocks >>
                         ELSE /\ b_pos' = 0
                              /\ pc' = "doc"
                              /\ lines' = <<>>
                              /\ blocks' = <<>>
    /\ UNCHANGED << args, cmd_base, files, md_pos, tmpdir, children,
                    total, found_any, retval, cleaned >>
    /\ UNCHANGED scanVars

\* lines 174-180
Summary ==
    /\ pc = "doc"
    /\ md_pos = Len(files)
    /\ IF found_any = 0
       THEN /\ log' = Append(log, Say("noblocks", <<>>))
            /\ retval' = 0
       ELSE /\ log' = log \o << Say("summary", <<"----">>),
                                Ev("summary", <<>>, total, failed, <<>>, <<>>) >>
            /\ retval' = IF failed = 0 THEN 0 ELSE 1
    /\ pc' = "finally"
    /\ UNCHANGED << args, cmd_base, files, md_pos, b_pos, tmpdir, children,
                    in_file, failed, total, found_any, cleaned, lines, blocks >>
    /\ UNCHANGED scanVars

\* lines 181-191: the finally clause, entered by a return statement or by an
\* exception.  Every unlink may fail (stuck: the children that stay), and
\* iterdir or rmdir may raise.
Finally ==
    /\ pc \in {"finally", "finally_raise"}
    /\ IF CleanupWanted(args)
       THEN \E stuck \in SUBSET children, rmdir_ok \in BOOLEAN :
              LET removed == (stuck = {}) /\ rmdir_ok
              IN  /\ cleaned' = TRUE
                  /\ children' = stuck
                  /\ tmpdir' = IF removed THEN "removed" ELSE "exists"
                  /\ log' = IF ~removed /\ ~args.quiet
                            THEN Append(log, Say("note", <<"could not remove temp dir">>))
                            ELSE log
       ELSE UNCHANGED << cleaned, children, tmpdir, log >>
    /\ pc' = IF pc = "finally" THEN "returned" ELSE "raised"
    /\ UNCHANGED << args, cmd_base, files, md_pos, b_pos, in_file, failed,
                    total, found_any, retval, lines, blocks >>
    /\ UNCHANGED scanVars

(***************************************************************************)
(* ScanSpec: main on one document, with find_mermaid_blocks run one loop   *)
(* iteration per step.  It starts where main, having created the scratch   *)
(* directory, calls find_mermaid_blocks on the only document of files, and *)
(* goes on with the validation of the blocks found.                        *)
(***************************************************************************)
\* the lines ScanSpec's documents are made of
LineSet ==
    { <<"bt3", "mermaid">>,
      <<" ", "bt3", "mermaidjs", "\t">>,
      <<"bt3">>,
      <<" ", "bt3", " ">>,
      <<"bt3", "python">>,
      <<"bt3", "Mermaid">>,
      <<"x">>,
      <<>> }

ScanPath == <<"/", "d">>

ScanSpecInit ==
    /\ pc = "scan"
    /\ args = [inputs |-> <<ScanPath>>, config |-> "none", keep |-> FALSE,
               quiet |-> FALSE]
    /\ cmd_base = which_mmdc(TRUE, FALSE)
    /\ files = <<ScanPath>>
    /\ md_pos = 1
    /\ b_pos = 0
    /\ tmpdir = "exists"
    /\ children = {}
    /\ in_file = NoFile
    /\ failed = 0
    /\ total = 0
    /\ found_any = 0
    /\ retval = -1
    /\ cleaned = FALSE
    /\ log = <<>>
    /\ lines \in SeqsUpTo(LineSet, MaxLines)
    /\ blocks = ScanInit.blocks
    /\ i = 1
    /\ in_block = ScanInit.in_block
    /\ start_line = ScanInit.start_line
    /\ buf = ScanInit.buf
    /\ block_idx = ScanInit.block_idx

ScanState ==
    [in_block |-> in_block, start_line |-> start_line, buf |-> buf,
     block_idx |-> block_idx, blocks |-> blocks]

\* lines 55-68: the loop body, on line i
ScanLine ==
    /\ pc = "scan"
    /\ i <= Len(lines)
    /\ LET st == ScanStep(files[md_pos], ScanState, i, lines[i])
       IN  /\ in_block' = st.in_block
           /\ start_line' = st.start_line
           /\ buf' = st.buf
           /\ block_idx' = st.block_idx
           /\ blocks' = st.blocks
    /\ i' = i + 1
    /\ UNCHANGED << pc, lines >>
    /\ UNCHANGED mainVars

\* line 69, return blocks, and lines 149-151 of main
ScanReturn ==
    /\ pc = "scan"
    /\ i > Len(lines)
    /\ IF blocks = <<>>
       THEN /\ pc' = "doc"
            /\ lines' = <<>>
            /\ UNCHANGED << found_any, b_pos >>
       ELSE /\ found_any' = 1
            /\ b_pos' = 1
            /\ pc' = "write"
            /\ UNCHANGED lines
    /\ log' = Append(log, Ev("read", files[md_pos], Len(blocks), 0, <<>>, <<>>))
    /\ UNCHANGED << args, cmd_base, files, md_pos, tmpdir, children, in_file,
                    failed, total, retval, cleaned, blocks >>
    /\ UNCHANGED scanVars

ScanNext == ScanLine \/ ScanReturn \/ WriteBlock \/ RunBlock

ScanSpec == ScanSpecInit /\ [][ScanNext]_vars

Next ==
    \/ WhichMmdc
    \/ CheckConfig
    \/ ExpandInputs
    \/ Mkdtemp
    \/ NextDoc
    \/ WriteBlock
    \/ RunBlock
    \/ Summary
    \/ Finally

Spec == Init /\ [][Next]_vars

(***************************************************************************)
(* What the log and the document say, for the properties below.            *)
(***************************************************************************)
IsRun(e) == e.ev = "run"
IsRead(e) == e.ev = "read"
IsReport(e) == e.ev \in {"OK", "ERR"}

Runs == SelectSeq(log, IsRun)
Reads == SelectSeq(log, IsRead)
Reports == SelectSeq(log, IsReport)

\* the renderer process ran and exited with a nonzero status
ExitedNonzero(e) == IsRun(e) /\ e.text = <<"exit", "nonzero">>
\* the renderer process ran and exited with status zero
ExitedZero(e) == IsRun(e) /\ e.text = <<"exit", "zero">>

IsPrefix(s, t) == Len(s) <= Len(t) /\ SubSeq(t, 1, Len(s)) = s

\* main returned through a return statement after the scratch directory was made
ReturnedAfterScan == pc = "returned" /\ tmpdir # "none"

\* the (document, index) pairs of the blocks the documents read hold, in order
RECURSIVE BlocksOfReads(_)
BlocksOfReads(rs) ==
    IF rs = <<>> THEN <<>>
    ELSE [k \in 1..Head(rs).idx |-> <<Head(rs).md, k>>] \o BlocksOfReads(Tail(rs))

RunIds == [k \in 1..Len(Runs) |-> <<Runs[k].md, Runs[k].idx>>]

RECURSIVE SumIdx(_)
SumIdx(rs) == IF rs = <<>> THEN 0 ELSE Head(rs).idx + SumIdx(Tail(rs))

\* line p of ls is an opening fence: it matches FENCE_RE and every opening
\* fence before it has a closing fence before p
RECURSIVE IsOpening(_, _)
IsOpening(ls, p) ==
    /\ FENCE_RE(ls[p])
    /\ \A o \in 1..(p - 1) :
         IsOpening(ls, o) => \E q \in (o + 1)..(p - 1) : END_FENCE_RE(ls[q])

\* the closing fences after line p, among the lines before line n
ClosesAfter(ls, p, n) == { q \in (p + 1)..(n - 1) : END_FENCE_RE(ls[q]) }

\* the first of a non-empty set of line numbers
First(S) == CHOOSE q \in S : \A r \in S : q <= r

(***************************************************************************)
(* The properties.                                                         *)
(***************************************************************************)

\* C1: once main has passed its three environment checks and returned, it
\* returned 1 if some block's renderer process exited with a nonzero status,
\* and 0 otherwise.
C1_ExitStatusIffNonzeroExit ==
    ReturnedAfterScan =>
        retval = (IF \E k \in 1..Len(log) : ExitedNonzero(log[k]) THEN 1 ELSE 0)

\* C2: the renderer is invoked on the blocks of the documents read, in
\* document order and then block order, and never on anything else; when main
\* returns after the loops every block of every input document was invoked
\* once, the documents read are the input files in order, and the summary's
\* Checked count is the number of blocks.  Only an exception ends the loops
\* early: a block that failed does not.
C2_EveryBlockInvokedInOrder ==
    /\ IsPrefix(RunIds, BlocksOfReads(Reads))
    /\ pc \in {"finally_raise", "raised"} =>
           Runs # <<>> /\ Runs[Len(Runs)].text[1] = "oserror"
    /\ ReturnedAfterScan =>
           /\ RunIds = BlocksOfReads(Reads)
           /\ [k \in 1..Len(Reads) |-> Reads[k].md] = files
           /\ total = SumIdx(Reads)
           /\ found_any # 0 =>
                  \E k \in 1..Len(log) :
                      /\ log[k].ev = "summary"
                      /\ log[k].text = <<>>
                      /\ log[k].idx = SumIdx(Reads)

C2_Witness ==
    /\ ReturnedAfterScan
    /\ Len(Reads) = 2
    /\ Len(Runs) = 4
    /\ ExitedNonzero(Runs[1])
    /\ Runs[2].text[1] = "notfound"

\* C3: no two renderer invocations of a run use the same scratch file name.
C3_ScratchNamesDistinct ==
    \A j, k \in 1..Len(Runs) : j # k => Runs[j].name # Runs[k].name

\* C4: the failure counter counts the renderer processes that ran and exited
\* with a nonzero status, and main returns 1 only if there is one.
C4_StatusOneOnlyForNonzeroExit ==
    /\ failed = Cardinality({ k \in 1..Len(log) : ExitedNonzero(log[k]) })
    /\ retval = 1 => \E k \in 1..Len(log) : ExitedNonzero(log[k])

\* C5: as soon as the renderer is found unresolvable, the given config path
\* missing, or no input existing, main has returned 2 with no document read,
\* no renderer invoked and no scratch directory; and main returns 2 in these
\* cases only.
EnvError ==
    \/ pc # "which" /\ cmd_base = <<>>
    \/ pc \notin {"which", "config"} /\ args.config = "missing"
    \/ pc \notin {"which", "config", "inputs"} /\ files = <<>>

C5_EnvErrorReturnsTwoAtOnce ==
    /\ EnvError =>
           /\ pc = "returned"
           /\ retval = 2
           /\ tmpdir = "none"
           /\ children = {}
           /\ Reads = <<>>
           /\ Runs = <<>>
           /\ total = 0
    /\ retval = 2 => EnvError

C5_Witness ==
    /\ retval = 2
    /\ cmd_base # <<>>
    /\ args.config = "exists"
    /\ files = <<>>
    /\ Len(args.inputs) = 2

\* C6: while find_mermaid_blocks scans, and when its loop has ended, the
\* blocks emitted are, in order, one for each opening fence that has a closing
\* fence among the lines read; the lines buffered after an opening fence that
\* is still open are in no block.
C6_OneBlockPerClosedOpening ==
    pc = "scan" =>
        LET closed == { p \in 1..(i - 1) :
                          IsOpening(lines, p) /\ ClosesAfter(lines, p, i) # {} }
        IN  /\ Len(blocks) = Cardinality(closed)
            /\ { blocks[k].start_line : k \in 1..Len(blocks) } = closed
            /\ in_block <=> (\E p \in 1..(i - 1) :
                               IsOpening(lines, p) /\ ClosesAfter(lines, p, i) = {})
            /\ in_block => IsOpening(lines, start_line)
                           /\ ClosesAfter(lines, start_line, i) = {}
                           /\ buf = SubSeq(lines, start_line + 1, i - 1)

C6_Witness ==
    /\ pc = "scan"
    /\ i > Len(lines)
    /\ in_block
    /\ buf # <<>>
    /\ Len(blocks) = 1

\* C7: the text written to a block's scratch input file is the newline-join
\* of the source lines strictly between the block's opening fence, at
\* start_line, and the first closing fence after it.
C7_ScratchTextIsSourceSpan ==
    pc = "run" =>
        LET b == blocks[b_pos]
            closes == ClosesAfter(lines, b.start_line, Len(lines) + 1)
        IN  /\ FENCE_RE(lines[b.start_line])
            /\ closes # {}
            /\ in_file.text = Join(SubSeq(lines, b.start_line + 1, First(closes) - 1))
            /\ in_file.name = Stem(files[md_pos], b.index_in_file)

C7_Witness ==
    /\ pc = "run"
    /\ \E k \in 1..Len(in_file.text) : in_file.text[k] = "\n"
    /\ \E k \in 1..Len(in_file.text) : in_file.text[k] = "mermaidjs"
    /\ \E k \in 1..Len(in_file.text) : in_file.text[k] = "python"

\* C8: at every point of the scan the blocks emitted so far have the indices
\* 1, 2, ... in emission order and strictly increasing start lines, and the
\* index counter moves only in the step that reads the closing fence of the
\* open block, by one and together with the emission of that block.
C8_IndicesNow ==
    /\ block_idx = Len(blocks)
    /\ \A k \in 1..Len(blocks) : blocks[k].index_in_file = k
    /\ \A j, k \in 1..Len(blocks) :
         j < k => blocks[j].start_line < blocks[k].start_line

C8_IndexAssignedAtClose ==
    (pc = "scan" /\ (block_idx' # block_idx \/ Len(blocks') # Len(blocks))) =>
        /\ in_block
        /\ i <= Len(lines)
        /\ END_FENCE_RE(lines[i])
        /\ block_idx' = block_idx + 1
        /\ blocks' = Append(blocks, blocks'[Len(blocks')])
        /\ blocks'[Len(blocks')].index_in_file = block_idx'
        /\ blocks'[Len(blocks')].start_line = start_line

C8_IndicesContiguous ==
    [](pc = "scan" => C8_IndicesNow) /\ [][C8_IndexAssignedAtClose]_vars

C8_Witness ==
    /\ pc = "scan"
    /\ Len(blocks) = 2
    /\ blocks[1].start_line = 1
    /\ blocks[2].start_line = 3
    /\ i > Len(lines)

\* C9: in the log every renderer invocation that returned is followed at once,
\* before the next invocation, by its report line: an ERR line if it did not
\* succeed, an OK line if it succeeded and --quiet is not set, no line if it
\* succeeded and --quiet is set.  Every report line follows its invocation,
\* so a document without blocks has none, and the invocations are in
\* document-then-block order.
ReportOf(k) ==
    IF ExitedZero(log[k])
    THEN IF args.quiet THEN <<>>
         ELSE << Ev("OK", log[k].md, 0, log[k].start, log[k].name, <<>>) >>
    ELSE << [ev |-> "ERR", md |-> log[k].md, start |-> log[k].start,
             name |-> log[k].name] >>

Position(md) == CHOOSE n \in 1..Len(files) : files[n] = md

C9_ReportsFollowInvocations ==
    /\ \A k \in 1..Len(log) :
         (IsRun(log[k]) /\ log[k].text[1] # "oserror") =>
             IF ExitedZero(log[k])
             THEN IF args.quiet
                  THEN k < Len(log) => ~IsReport(log[k + 1])
                  ELSE k < Len(log) /\ << log[k + 1] >> = ReportOf(k)
             ELSE /\ k < Len(log)
                  /\ << [f \in {"ev", "md", "start", "name"} |-> log[k + 1][f]] >>
                         = ReportOf(k)
    /\ \A k \in 1..Len(log) :
         IsReport(log[k]) =>
             /\ k > 1
             /\ IsRun(log[k - 1])
             /\ log[k - 1].md = log[k].md
             /\ log[k - 1].name = log[k].name
             /\ (log[k].ev = "OK") <=> ExitedZero(log[k - 1])
    /\ \A j, k \in 1..Len(Runs) :
         j < k => \/ Position(Runs[j].md) < Position(Runs[k].md)
                  \/ Runs[j].md = Runs[k].md /\ Runs[j].idx < Runs[k].idx

C9_Witness ==
    /\ ReturnedAfterScan
    /\ args.quiet
    /\ Len(Runs) = 2
    /\ Len(Reads) = 2
    /\ Reads[1].idx = 0
    /\ Len(Reports) = 1
    /\ ExitedZero(Runs[1])

\* C10: main leaves through the finally clause on every path that follows the
\* creation of the scratch directory; the clause attempts the cleanup if and
\* only if --keep is not set, with --keep the directory and every scratch
\* file written stay, and the clause changes neither the value returned nor
\* whether main returns or raises.
C10_AfterFinally ==
    (pc \in {"returned", "raised"} /\ tmpdir # "none") =>
        /\ cleaned <=> ~args.keep
        /\ args.keep =>
               /\ tmpdir = "exists"
               /\ children = { Runs[k].name : k \in 1..Len(Runs) }
        /\ pc = "raised" <=> retval = -1

C10_FinallyKeepsStatus ==
    /\ (pc' \in {"returned", "raised"} /\ pc' # pc /\ tmpdir # "none") =>
           pc \in {"finally", "finally_raise"}
    /\ pc \in {"finally", "finally_raise"} =>
           /\ retval' = retval
           /\ pc' = (IF pc = "finally" THEN "returned" ELSE "raised")

C10_CleanupUnlessKeep ==
    []C10_AfterFinally /\ [][C10_FinallyKeepsStatus]_vars

C10_Witness ==
    /\ pc = "raised"
    /\ ~args.keep
    /\ cleaned
    /\ tmpdir = "exists"
    /\ children # {}
    /\ Len(Runs) = 2

====
